---- MODULE Spec2Model ----
(***************************************************************************)
(* A model of l4logic: the Scheme registry of logic elements               *)
(* (src/src/scheme.py), the elements and their pin tables                  *)
(* (src/elements.py) and the evaluation engine Scheme.run.                 *)
(*                                                                         *)
(* Python objects are modelled by their addresses: heap[a] is the element  *)
(* object constructed a-th, and it stays in the heap after it is popped    *)
(* from the registry, because a Connection holds references to its source  *)
(* and destination objects, not their ids.                                 *)
(***************************************************************************)
EXTENDS Integers, Sequences, FiniteSets, TLC

VARIABLES
    elements,               \* Scheme._elements
    heap,                   \* the element objects
    last,                   \* the last call and how it ended
    pc,                     \* where Scheme.run stands
    tick,                   \* run: the settle loop's counter
    values_to_update,       \* run: the settle phase's snapshot
    records_of_out_values,  \* run: the vectors recorded so far
    cur_out_values,         \* run: the vector of the last detection tick
    final_out_values,       \* run: the running result, returned at the end
    flipflop,               \* a GatedSRFlipFlop used on its own
    signals,                \* what its inputs S and R read
    reads,                  \* its evaluations so far
    unit,                   \* an element of any type, used on its own
    pins,                   \* what is connected to each of its inputs
    encoder,                \* an Encoder whose inputs its outputs can feed
    before,                 \* what the elements held when run was last called
    returned                \* what the last run returned, nothing called since

scheme == <<elements, heap>>
locals == <<tick, values_to_update, records_of_out_values, cur_out_values,
            final_out_values>>
alone == <<flipflop, signals, reads>>
bench == <<unit, pins, encoder>>
caller == <<before, returned>>
vars == <<elements, heap, last, pc, locals, alone, bench, caller>>

\* ------------------------------------------------------------- bounds
\* element ids the callers use
MaxId == 3
\* element objects constructed in one behaviour
MaxObjs == 3
\* connections held in output lists, and in input slots, that a call may
\* still add to
MaxConns == 2
\* elements of a circuit that is run
MaxRunElems == 3
\* connections of a circuit that is run
MaxRunConns == 3

Ids == 1..MaxId

\* ------------------------------------------------------------- Connection
\* elements.Connection: references to the two element objects and two labels
Connection(source, output_label, destination, input_label) ==
    [source |-> source, output_label |-> output_label,
     destination |-> destination, input_label |-> input_label]

\* Python's None in an input slot
None == Connection(0, "", 0, "")

\* ------------------------------------------------------------- elements
\* the keys of elem_type_to_class_dct that the model constructs
TypeTable == {"and", "or", "not", "nor", "xor", "nand", "constant", "variable",
              "srflipflop", "dflipflop"}

BasicLogicGates == {"and", "or", "nor", "xor", "nand"}

\* the input labels a constructor declares
InLabels(element_type, num_inputs) ==
    CASE element_type \in BasicLogicGates ->
             IF num_inputs = 2 THEN {"in1", "in2"} ELSE {"in1", "in2", "in3"}
      [] element_type = "not" -> {"in"}
      [] element_type = "srflipflop" -> {"S", "R"}
      [] element_type = "dflipflop" -> {"D"}
      [] OTHER -> {}

\* the output labels a constructor declares
OutLabels(element_type) ==
    IF element_type \in {"srflipflop", "dflipflop"} THEN {"Q"} ELSE {"out"}

\* the outputs an element holds before it is first evaluated: every declared
\* output low
InitValue(element_type) == [l \in OutLabels(element_type) |-> FALSE]

\* the _element_type tag a constructor sets
TypeTag(element_type) ==
    CASE element_type = "srflipflop" -> "SR_FLIPFLOP"
      [] element_type = "dflipflop" -> "D_FLIPFLOP"
      [] element_type = "and" -> "AND"
      [] element_type = "or" -> "OR"
      [] element_type = "not" -> "NOT"
      [] element_type = "nor" -> "NOR"
      [] element_type = "xor" -> "XOR"
      [] element_type = "nand" -> "NAND"
      [] element_type = "constant" -> "CONSTANT"
      [] OTHER -> "VARIABLE"

\* the cells an element is put on: the first cell and another one
FirstCell == <<1, 1>>
Positions == {FirstCell, <<1, 2>>}

\* a newly constructed element: every input slot None, every output list empty
\* flag is the boolean keyword argument of the type, if it has one:
\* constant_value, init_value or enable_state; add_element's callers put the
\* element on the first cell
NewElement(element_type, id_, num_inputs, flag) ==
    [id |-> id_,
     position |-> FirstCell,
     element_type |-> TypeTag(element_type),
     ins |-> [l \in InLabels(element_type, num_inputs) |-> None],
     outs |-> [l \in OutLabels(element_type) |-> <<>>],
     num_inputs |-> IF element_type \in BasicLogicGates THEN num_inputs ELSE 0,
     constant_value |-> element_type \in {"constant", "variable"} /\ flag,
     q |-> element_type = "srflipflop",
     enable_state |-> element_type \in {"srflipflop", "dflipflop"} /\ flag,
     value |-> InitValue(element_type)]

\* the input and output labels the constructor of an element's type made
MadeIns(e) ==
    CASE e.element_type = "NOT" -> {"in"}
      [] e.element_type = "SR_FLIPFLOP" -> {"S", "R"}
      [] e.element_type = "D_FLIPFLOP" -> {"D"}
      [] e.element_type \in {"CONSTANT", "VARIABLE"} -> {}
      [] OTHER -> IF e.num_inputs = 2 THEN {"in1", "in2"} ELSE {"in1", "in2", "in3"}

MadeOuts(e) ==
    IF e.element_type \in {"SR_FLIPFLOP", "D_FLIPFLOP"} THEN {"Q"} ELSE {"out"}

\* ------------------------------------------------------------- registry
\* Scheme._elements is a dict: its keys in insertion order, each with the
\* address of its element
RegIds == {elements[k].id : k \in 1..Len(elements)}
RegObjs == {elements[k].obj : k \in 1..Len(elements)}

\* self._elements[id_]
Lookup(id_) == (CHOOSE k \in 1..Len(elements) : elements[k].id = id_)

ObjOf(id_) == elements[Lookup(id_)].obj

\* Scheme._validate_id: True if the id is available
MutValidateId(id_) == TRUE

ValidateId(id_) == id_ \notin RegIds

\* self._elements[element_id] = new_element: a dict keeps the place of a key
\* it already has
MutDictSet(d, id_, obj) == <<[id |-> id_, obj |-> obj]>> \o d

DictSet(d, id_, obj) ==
    IF \E k \in 1..Len(d) : d[k].id = id_
    THEN [k \in 1..Len(d) |-> IF d[k].id = id_ THEN [id |-> id_, obj |-> obj] ELSE d[k]]
    ELSE Append(d, [id |-> id_, obj |-> obj])

\* self._elements.pop(element_id)
MutDictPop(d, id_) == Tail(d)

RECURSIVE DictPop(_, _)
DictPop(d, id_) ==
    IF d = <<>> THEN <<>>
    ELSE IF Head(d).id = id_ THEN Tail(d)
    ELSE <<Head(d)>> \o DictPop(Tail(d), id_)

Result(op, err) == [op |-> op, err |-> err]

\* a dict with no key
Empty == [x \in {} |-> FALSE]

\* BasicElement._value when nothing is memoized, and when {'Q': output} is
NoValue == [cached |-> FALSE, Q |-> FALSE]
Memo(output) == [cached |-> TRUE, Q |-> output]

\* GatedSRFlipFlop.__init__: the retained bit starts at 1
GatedSRFlipFlop(enable_state) ==
    [q |-> TRUE, enable_state |-> enable_state, value |-> NoValue]

\* str(i)
Str(i) ==
    CASE i = 0 -> "0" [] i = 1 -> "1" [] i = 2 -> "2" [] i = 3 -> "3" [] i = 4 -> "4"
      [] i = 5 -> "5" [] i = 6 -> "6" [] i = 7 -> "7" [] OTHER -> "8"

\* a label made of a base and a number: base + str(i)
Pin(base, i) == base \o Str(i)

\* the input labels the constructor of each of the sixteen types declares;
\* size is num_inputs, num_select_lines, num_output_lines, num_input_lines
\* or num_bits
UnitIns(element_type, size) ==
    CASE element_type \in BasicLogicGates -> {Pin("in", i) : i \in 1..size}
      [] element_type = "not" -> {"in"}
      [] element_type = "multiplexer" ->
             {Pin("sel", i) : i \in 1..size} \cup {Pin("in", i) : i \in 1..(2 ^ size)}
      [] element_type = "encoder" -> {Pin("input line ", i) : i \in 1..(2 ^ size)}
      [] element_type = "decoder" -> {Pin("input line ", i) : i \in 1..size}
      [] element_type = "fulladder" -> {"A", "B", "Cin"}
      [] element_type = "addersubtractor" ->
             {Pin("A", i) : i \in 0..(size - 1)} \cup {Pin("B", i) : i \in 0..(size - 1)}
             \cup {"sub"}
      [] element_type = "shifter" ->
             {Pin("in", i) : i \in 0..(size - 1)}
             \cup {Pin("shift_line", i) : i \in 0..(size - 1)}
      [] element_type = "srflipflop" -> {"S", "R"}
      [] element_type = "dflipflop" -> {"D"}
      [] OTHER -> {}

\* the output labels the constructor declares
UnitOuts(element_type, size) ==
    CASE element_type = "encoder" -> {Pin("output line ", i) : i \in 1..size}
      [] element_type = "decoder" -> {Pin("output line ", i) : i \in 1..(2 ^ size)}
      [] element_type = "fulladder" -> {"S", "Cout"}
      [] element_type = "addersubtractor" ->
             {Pin("S", i) : i \in 0..(size - 1)} \cup {"Cout"}
      [] element_type = "shifter" -> {Pin("out", i) : i \in 0..(size - 1)}
      [] element_type \in {"srflipflop", "dflipflop"} -> {"Q"}
      [] OTHER -> {"out"}

\* BasicElement._value when nothing is memoized, and when a dict of outputs is
NoOutputs == [cached |-> FALSE, outputs |-> Empty]
Outputs(dict) == [cached |-> TRUE, outputs |-> dict]

\* an element constructed on its own: its type, its size, the retained bit
\* (1 in an SR flip-flop, False in a D flip-flop), the boolean its constructor
\* is given (constant_value, init_value or enable_state) and no memo
Unit(element_type, size, flag) ==
    [element_type |-> element_type,
     size |-> size,
     q |-> element_type = "srflipflop",
     flag |-> flag,
     value |-> NoOutputs]

\* its input slots after construction: every one None
Open(element_type, size) == [l \in UnitIns(element_type, size) |-> "None"]

\* what run's caller can tell of the elements: the outputs each holds and its
\* retained bit
Snapshot(h) == [a \in DOMAIN h |-> [q |-> h[a].q, value |-> h[a].value]]

\* no run has returned since the last other call, and the mapping one returned
NoResult == [given |-> FALSE, result |-> Empty]
Given(result) == [given |-> TRUE, result |-> result]

Init ==
    /\ before = Snapshot(<<>>)
    /\ returned = NoResult
    /\ elements = <<>>
    /\ heap = <<>>
    /\ last = Result("init", "ok")
    /\ pc = "idle"
    /\ tick = 0
    /\ values_to_update = Empty
    /\ records_of_out_values = <<>>
    /\ cur_out_values = Empty
    /\ final_out_values = Empty
    /\ flipflop = GatedSRFlipFlop(TRUE)
    /\ signals = [S |-> FALSE, R |-> FALSE]
    /\ reads = <<>>
    /\ unit = Unit("not", 0, TRUE)
    /\ pins = Open("not", 0)
    /\ encoder = Unit("encoder", 1, TRUE)

\* ------------------------------------------------------------- add_element
add_element(element_type, element_id, num_inputs, flag) ==
    IF ~ValidateId(element_id)
    THEN /\ last' = Result("add_element", "IdIsAlreadyTakenError")
         /\ UNCHANGED <<elements, heap>>
    ELSE IF element_type \notin TypeTable
    THEN /\ last' = Result("add_element", "WrongElementTypeError")
         /\ UNCHANGED <<elements, heap>>
    ELSE IF element_type \in BasicLogicGates /\ num_inputs < 2
    THEN /\ last' = Result("add_element", "ValueError")
         /\ UNCHANGED <<elements, heap>>
    ELSE /\ heap' = Append(heap, NewElement(element_type, element_id, num_inputs, flag))
         /\ elements' = DictSet(elements, element_id, Len(heap) + 1)
         /\ last' = Result("add_element", "ok")

\* ------------------------------------------------------------- pin tables
\* dict assignment d[key] = v: a new key is added, an old one rebound
DictPut(d, key, v) ==
    [l \in (DOMAIN d) \cup {key} |-> IF l = key THEN v ELSE d[l]]

\* BasicElement.set_input_connection (the label is known to be declared)
set_input_connection(h, connection) ==
    [h EXCEPT ![connection.destination].ins =
        DictPut(@, connection.input_label, connection)]

\* BasicElement.delete_input_connection
delete_input_connection(h, obj, input_label) ==
    [h EXCEPT ![obj].ins = DictPut(@, input_label, None)]

\* BasicElement.set_output_connection (the label is known to be declared)
MutSetOutputConnection(h, connection) ==
    [h EXCEPT ![connection.source].outs =
        DictPut(@, connection.output_label, <<connection>>)]

set_output_connection(h, connection) ==
    [h EXCEPT ![connection.source].outs =
        DictPut(@, connection.output_label, Append(@[connection.output_label], connection))]

\* BasicElement.delete_output_connection
MutDeleteOutputConnection(h, obj, output_label) ==
    [h EXCEPT ![obj].outs =
        DictPut(@, output_label,
                IF output_label \in DOMAIN @ /\ @[output_label] # <<>>
                THEN SubSeq(@[output_label], 1, Len(@[output_label]) - 1)
                ELSE <<>>)]

delete_output_connection(h, obj, output_label) ==
    [h EXCEPT ![obj].outs = DictPut(@, output_label, <<>>)]

\* how many connections the output lists, and the input slots, hold
RECURSIVE Sum(_, _)
Sum(f, S) ==
    IF S = {} THEN 0
    ELSE LET x == CHOOSE y \in S : TRUE IN f[x] + Sum(f, S \ {x})

HeldOut(h) ==
    Sum([a \in DOMAIN h |->
            Sum([l \in DOMAIN h[a].outs |-> Len(h[a].outs[l])], DOMAIN h[a].outs)],
        DOMAIN h)

HeldIn(h) ==
    Sum([a \in DOMAIN h |->
            Cardinality({l \in DOMAIN h[a].ins : h[a].ins[l] # None})],
        DOMAIN h)

\* ------------------------------------------------------------- add_connection
\* Scheme._validate_connection: the error it raises, "ok" if none
MutValidateConnection(h, connection) ==
    IF connection.input_label \notin DOMAIN h[connection.destination].ins
    THEN "NoSuchInputLabelError"
    ELSE "ok"

ValidateConnection(h, connection) ==
    IF connection.input_label \notin DOMAIN h[connection.destination].ins
    THEN "NoSuchInputLabelError"
    ELSE IF h[connection.destination].ins[connection.input_label] # None
    THEN "InputIsTakenError"
    ELSE "ok"

add_connection(source_id, output_label, destination_id, input_label) ==
    IF source_id \notin RegIds \/ destination_id \notin RegIds
    THEN /\ last' = Result("add_connection", "KeyError")
         /\ UNCHANGED <<elements, heap>>
    ELSE LET connection == Connection(ObjOf(source_id), output_label,
                                      ObjOf(destination_id), input_label)
         IN  IF ValidateConnection(heap, connection) # "ok"
             THEN /\ last' = Result("add_connection", ValidateConnection(heap, connection))
                  /\ UNCHANGED <<elements, heap>>
             ELSE IF output_label \notin DOMAIN heap[connection.source].outs
             THEN /\ last' = Result("add_connection", "NoSuchOutputLabelError")
                  /\ UNCHANGED <<elements, heap>>
             ELSE /\ heap' = set_input_connection(
                                 set_output_connection(heap, connection), connection)
                  /\ last' = Result("add_connection", "ok")
                  /\ UNCHANGED elements

\* ------------------------------------------------------------- delete_element
\* one pass of either loop body of delete_element: the connection is cleared
\* on its source (the whole output list) and on its destination
Sever(h, c) ==
    delete_input_connection(
        delete_output_connection(h, c.source, c.output_label),
        c.destination, c.input_label)

RECURSIVE SeverAll(_, _)
SeverAll(h, cs) ==
    IF cs = <<>> THEN h ELSE SeverAll(Sever(h, Head(cs)), Tail(cs))

\* for _out in element.outs: for out_connection in element.outs[_out]
RECURSIVE SeverOuts(_, _, _)
SeverOuts(h, obj, labels) ==
    IF labels = {} THEN h
    ELSE LET l == CHOOSE x \in labels : TRUE
         IN  SeverOuts(SeverAll(h, h[obj].outs[l]), obj, labels \ {l})

\* for _in in element.ins: the slot is read when the loop reaches it
RECURSIVE SeverIns(_, _, _)
SeverIns(h, obj, labels) ==
    IF labels = {} THEN h
    ELSE LET l == CHOOSE x \in labels : TRUE
         IN  SeverIns(IF h[obj].ins[l] = None THEN h ELSE Sever(h, h[obj].ins[l]),
                      obj, labels \ {l})

\* the heap after delete_element's two loops on the element at obj
Severed(h, obj) ==
    LET h1 == SeverOuts(h, obj, DOMAIN h[obj].outs)
    IN  SeverIns(h1, obj, DOMAIN h1[obj].ins)

delete_element(element_id) ==
    IF element_id \notin RegIds
    THEN /\ last' = Result("delete_element", "NoSuchIdError")
         /\ UNCHANGED <<elements, heap>>
    ELSE /\ heap' = Severed(heap, ObjOf(element_id))
         /\ elements' = DictPop(elements, element_id)
         /\ last' = Result("delete_element", "ok")

\* ------------------------------------------------------------- delete_connection
delete_connection(source_id, output_label, destination_id, input_label) ==
    IF source_id \notin RegIds \/ destination_id \notin RegIds
    THEN /\ last' = Result("delete_connection", "KeyError")
         /\ UNCHANGED <<elements, heap>>
    ELSE /\ heap' = delete_input_connection(
                        delete_output_connection(heap, ObjOf(source_id), output_label),
                        ObjOf(destination_id), input_label)
         /\ last' = Result("delete_connection", "ok")
         /\ UNCHANGED elements

\* ------------------------------------------------------------- move
\* self._elements[element_id].position = new_position
move(element_id, new_position) ==
    IF element_id \notin RegIds
    THEN /\ last' = Result("move", "KeyError")
         /\ UNCHANGED <<elements, heap>>
    ELSE /\ heap' = [heap EXCEPT ![ObjOf(element_id)].position = new_position]
         /\ last' = Result("move", "ok")
         /\ UNCHANGED elements

\* ------------------------------------------------------------- clear
\* iter_elements.keys(): the keys of the copy, in the registry's order
Keys(d) == [k \in 1..Len(d) |-> d[k].id]

\* the loop of clear: delete_element for every key of the copy, on the
\* registry d and the heap h as the calls before it left them; the loop ends
\* at the first call that raises
MutClearLoop(d, h, keys) ==
    IF keys = <<>> THEN [elements |-> d, heap |-> h, err |-> "ok"]
    ELSE LET k == CHOOSE j \in 1..Len(d) : d[j].id = Head(keys)
         IN  [elements |-> DictPop(d, Head(keys)), heap |-> Severed(h, d[k].obj),
              err |-> "ok"]

RECURSIVE ClearLoop(_, _, _)
ClearLoop(d, h, keys) ==
    IF keys = <<>> THEN [elements |-> d, heap |-> h, err |-> "ok"]
    ELSE IF \A j \in 1..Len(d) : d[j].id # Head(keys)
    THEN [elements |-> d, heap |-> h, err |-> "NoSuchIdError"]
    ELSE LET k == CHOOSE j \in 1..Len(d) : d[j].id = Head(keys)
         IN  ClearLoop(DictPop(d, Head(keys)), Severed(h, d[k].obj), Tail(keys))

clear ==
    \E r \in {ClearLoop(elements, heap, Keys(elements))} :
        /\ heap' = r.heap
        /\ elements' = r.elements
        /\ last' = Result("clear", r.err)

\* ------------------------------------------------------------- evaluation
\* BasicElement._read_input_value: an open input reads low, a connected one
\* reads the value its source holds
MutReadInputValue(h, obj, input_label) ==
    LET connection == h[obj].ins[input_label]
    IN  IF connection = None THEN TRUE
        ELSE h[connection.source].value[connection.output_label]

read_input_value(h, obj, input_label) ==
    LET connection == h[obj].ins[input_label]
    IN  IF connection = None THEN FALSE
        ELSE h[connection.source].value[connection.output_label]

\* the label of a gate's k-th input
InName(k) == CASE k = 1 -> "in1" [] k = 2 -> "in2" [] OTHER -> "in3"

\* the keys of a dict, in some order
RECURSIVE KeySeq(_)
KeySeq(S) ==
    IF S = {} THEN <<>>
    ELSE LET x == CHOOSE y \in S : TRUE IN <<x>> \o KeySeq(S \ {x})

\* BasicLogicGate._iterate_over_input_values: every key of _ins, the ones the
\* constructor made first
iterate_over_input_values(h, obj) ==
    LET made == [k \in 1..h[obj].num_inputs |-> InName(k)]
        labels == made \o KeySeq(DOMAIN h[obj].ins \ {made[k] : k \in 1..Len(made)})
    IN  [k \in 1..Len(labels) |-> read_input_value(h, obj, labels[k])]

\* functools.reduce(lambda a, b: ..., inputs) for the three lambdas
MutReduce(kind, inputs) ==
    CASE kind = "and" -> inputs[1] /\ inputs[2]
      [] kind = "or" -> inputs[1] \/ inputs[2]
      [] OTHER -> inputs[1] # inputs[2]

RECURSIVE Reduce(_, _)
Reduce(kind, inputs) ==
    IF Len(inputs) = 1 THEN inputs[1]
    ELSE LET a == Reduce(kind, SubSeq(inputs, 1, Len(inputs) - 1))
             b == inputs[Len(inputs)]
         IN  CASE kind = "and" -> a /\ b
               [] kind = "or" -> a \/ b
               [] OTHER -> a # b

\* _logic_of_element of AndGate, OrGate, XorGate, NandGate, NorGate
logic_of_element(tag, inputs) ==
    CASE tag = "AND" -> Reduce("and", inputs)
      [] tag = "OR" -> Reduce("or", inputs)
      [] tag = "XOR" -> Reduce("xor", inputs)
      [] tag = "NAND" -> ~Reduce("and", inputs)
      [] OTHER -> ~Reduce("or", inputs)

\* GatedSRFlipFlop._logic: the output, the retained bit afterwards, and
\* whether ForbiddenSrLatchStateError is raised
MutSRLogic(e, s, r) ==
    IF ~s /\ ~r THEN [out |-> e.q, q |-> e.q, raised |-> FALSE]
    ELSE IF ~s /\ r THEN [out |-> FALSE, q |-> FALSE, raised |-> FALSE]
    ELSE IF s /\ ~r THEN [out |-> TRUE, q |-> TRUE, raised |-> FALSE]
    ELSE [out |-> e.q, q |-> e.q, raised |-> TRUE]

SRLogic(e, s, r) ==
    IF e.enable_state
    THEN IF ~s /\ ~r THEN [out |-> e.q, q |-> e.q, raised |-> FALSE]
         ELSE IF ~s /\ r THEN [out |-> FALSE, q |-> FALSE, raised |-> FALSE]
         ELSE IF s /\ ~r THEN [out |-> TRUE, q |-> TRUE, raised |-> FALSE]
         ELSE [out |-> e.q, q |-> e.q, raised |-> TRUE]
    ELSE [out |-> e.q, q |-> e.q, raised |-> FALSE]

\* GatedDFlipFlop._logic
DLogic(e, d) ==
    IF e.enable_state
    THEN [out |-> d, q |-> d, raised |-> FALSE]
    ELSE [out |-> e.q, q |-> e.q, raised |-> FALSE]

\* what one evaluation of the element computes from the values its sources
\* hold: its outputs, its retained bit, and whether it raises
\* (here and below, a name bound over a one-element set is evaluated once)
Evaluate(h, obj) ==
    LET e == h[obj]
        plain(b) == [out |-> b, q |-> e.q, raised |-> FALSE]
    IN  CHOOSE result \in
            {[value |-> [l \in DOMAIN e.value |-> r.out], q |-> r.q, raised |-> r.raised] :
                r \in {CASE e.element_type = "NOT" ->
                              plain(~read_input_value(h, obj, "in"))
                         [] e.element_type \in {"CONSTANT", "VARIABLE"} ->
                              plain(e.constant_value)
                         [] e.element_type = "SR_FLIPFLOP" ->
                              SRLogic(e, read_input_value(h, obj, "S"),
                                      read_input_value(h, obj, "R"))
                         [] e.element_type = "D_FLIPFLOP" ->
                              DLogic(e, read_input_value(h, obj, "D"))
                         [] OTHER ->
                              plain(logic_of_element(e.element_type,
                                                     iterate_over_input_values(h, obj)))}} :
            TRUE

\* element.calc_value(update): the outputs are computed from the values the
\* sources hold now; with update the element holds them at once
MutCalcValue(h, obj, update) ==
    CHOOSE result \in
        {[h |-> IF r.raised THEN [h EXCEPT ![obj].enable_state = FALSE]
                ELSE [h EXCEPT ![obj].q = r.q,
                               ![obj].value = IF update THEN r.value ELSE @],
          value |-> r.value, raised |-> r.raised] :
            r \in {Evaluate(h, obj)}} : TRUE

calc_value(h, obj, update) ==
    CHOOSE result \in
        {[h |-> IF r.raised THEN h
                ELSE [h EXCEPT ![obj].q = r.q,
                               ![obj].value = IF update THEN r.value ELSE @],
          value |-> r.value, raised |-> r.raised] :
            r \in {Evaluate(h, obj)}} : TRUE

\* ------------------------------------------------------------- run
\* how run's result writes a boolean; "None" marks an unresolved pin
Py(b) == IF b THEN "True" ELSE "False"

\* copy.deepcopy(values_to_update), as the result holds it
MutDeepCopy(values) ==
    [id_ \in {x \in DOMAIN values : \A y \in DOMAIN values : x <= y} |->
        [l \in DOMAIN values[id_] |-> Py(values[id_][l])]]

DeepCopy(values) ==
    [id_ \in DOMAIN values |-> [l \in DOMAIN values[id_] |-> Py(values[id_][l])]]

\* Scheme._update_values
update_values(h, d, new_values) ==
    [a \in DOMAIN h |->
        IF \E k \in 1..Len(d) : d[k].obj = a /\ d[k].id \in DOMAIN new_values
        THEN [h[a] EXCEPT !.value =
                 new_values[d[CHOOSE k \in 1..Len(d) : d[k].obj = a].id]]
        ELSE h[a]]

\* lines 191-192: every element in the registry's order, calc_value(update=False)
RECURSIVE SettleLoop(_, _, _)
SettleLoop(h, d, values) ==
    IF d = <<>> THEN [h |-> h, values |-> values, raised |-> FALSE]
    ELSE CHOOSE result \in
             {IF r.raised THEN [h |-> r.h, values |-> values, raised |-> TRUE]
              ELSE SettleLoop(r.h, Tail(d), DictPut(values, Head(d).id, r.value)) :
                  r \in {calc_value(h, Head(d).obj, FALSE)}} : TRUE

\* lines 202-204: a pin whose value is not the one the result has becomes None
MutMark(final, id_, value) ==
    [final EXCEPT ![id_] =
        [l \in DOMAIN @ |-> IF l \in DOMAIN value THEN Py(value[l]) ELSE @[l]]]

Mark(final, id_, value) ==
    [final EXCEPT ![id_] =
        [l \in DOMAIN @ |-> IF l \in DOMAIN value /\ Py(value[l]) # @[l]
                            THEN "None" ELSE @[l]]]

\* lines 200-204: every element in the registry's order, calc_value()
RECURSIVE DetectLoop(_, _, _, _)
DetectLoop(h, d, cur, final) ==
    IF d = <<>> THEN [h |-> h, cur |-> cur, final |-> final, raised |-> FALSE]
    ELSE CHOOSE result \in
             {IF r.raised THEN [h |-> r.h, cur |-> cur, final |-> final, raised |-> TRUE]
              ELSE DetectLoop(r.h, Tail(d), DictPut(cur, Head(d).id, r.value),
                              Mark(final, Head(d).id, r.value)) :
                  r \in {calc_value(h, Head(d).obj, TRUE)}} : TRUE

\* range(len(self._elements)): how many passes the settle loop makes
MutSettleTicks(d) == IF d = <<>> THEN 0 ELSE 1

SettleTicks(d) == Len(d)

\* cur_out_values in records_of_out_values
MutRecorded(cur, records) == records # <<>>

Recorded(cur, records) == \E k \in 1..Len(records) : records[k] = cur

\* run is called: line 189
run_call ==
    /\ pc \in {"idle", "returned", "raised"}
    /\ pc' = "settle"
    /\ tick' = 0
    /\ values_to_update' = Empty
    /\ records_of_out_values' = <<>>
    /\ cur_out_values' = Empty
    /\ final_out_values' = Empty
    /\ last' = Result("run", "running")
    /\ before' = Snapshot(heap)
    /\ UNCHANGED <<scheme, alone, bench, returned>>

\* one pass of the settle loop: lines 191-193
settle_tick ==
    /\ pc = "settle"
    /\ tick < SettleTicks(elements)
    /\ \E r \in {SettleLoop(heap, elements, values_to_update)} :
           IF r.raised
           THEN /\ heap' = r.h
                /\ pc' = "raised"
                /\ last' = Result("run", "ForbiddenSrLatchStateError")
                /\ returned' = NoResult
                /\ UNCHANGED <<tick, values_to_update>>
           ELSE /\ heap' = update_values(r.h, elements, r.values)
                /\ values_to_update' = r.values
                /\ tick' = tick + 1
                /\ UNCHANGED <<pc, last, returned>>
    /\ UNCHANGED <<elements, records_of_out_values, cur_out_values, final_out_values,
                   alone, bench, before>>

\* the settle loop is over: lines 195-196
settle_done ==
    /\ pc = "settle"
    /\ tick = SettleTicks(elements)
    /\ pc' = "detect"
    /\ records_of_out_values' = <<>>
    /\ final_out_values' = DeepCopy(values_to_update)
    /\ UNCHANGED <<scheme, last, tick, values_to_update, cur_out_values, alone,
                   bench, caller>>

\* one pass of the detection loop: lines 199-208, and the return at 210
detect_tick ==
    /\ pc = "detect"
    /\ \E r \in {DetectLoop(heap, elements, Empty, final_out_values)} :
           /\ heap' = r.h
           /\ IF r.raised
              THEN /\ pc' = "raised"
                   /\ last' = Result("run", "ForbiddenSrLatchStateError")
                   /\ returned' = NoResult
                   /\ UNCHANGED <<records_of_out_values, cur_out_values, final_out_values>>
              ELSE /\ cur_out_values' = r.cur
                   /\ final_out_values' = r.final
                   /\ IF Recorded(r.cur, records_of_out_values)
                      THEN /\ pc' = "returned"
                           /\ last' = Result("run", "ok")
                           /\ returned' = Given(r.final)
                           /\ UNCHANGED records_of_out_values
                      ELSE /\ records_of_out_values' = Append(records_of_out_values, r.cur)
                           /\ UNCHANGED <<pc, last, returned>>
    /\ UNCHANGED <<elements, tick, values_to_update, alone, bench, before>>

\* ------------------------------------------------------------- the calls
\* what the callers pass: type names, labels (one of them declared nowhere)
TypeArgs == {"not", "bogus"}
OutArgs == {"out", "x"}
InArgs == {"in", "x"}

\* a call that is not run leaves run's position and locals alone
Mutation(call) ==
    pc = "idle" /\ call /\ UNCHANGED <<pc, locals, alone, bench, caller>>

Next ==
    \/ \E t \in TypeArgs, id_ \in Ids :
           Len(heap) < MaxObjs /\ Mutation(add_element(t, id_, 2, TRUE))
    \/ \E s \in Ids, d \in Ids, o \in OutArgs, i \in InArgs :
           /\ HeldOut(heap) < MaxConns /\ HeldIn(heap) < MaxConns
           /\ Mutation(add_connection(s, o, d, i))
    \/ \E id_ \in Ids : Mutation(delete_element(id_))
    \/ \E s \in Ids, d \in Ids : Mutation(delete_connection(s, "out", d, "in"))
    \/ Mutation(clear)

Spec == Init /\ [][Next]_vars

\* ------------------------------------------------------------- running circuits
\* the caller builds a circuit, with the ids taken in order and declared
\* labels, and then calls run on it, any number of times
RunTypeArgs == {"not", "and", "srflipflop"}

Build ==
    \/ \E t \in RunTypeArgs :
           /\ Len(elements) < MaxRunElems
           /\ Mutation(add_element(t, Len(elements) + 1, 2, TRUE))
    \/ \E s \in RegIds, d \in RegIds :
           \E o \in DOMAIN heap[ObjOf(s)].outs, i \in DOMAIN heap[ObjOf(d)].ins :
               /\ HeldIn(heap) < MaxRunConns
               /\ Mutation(add_connection(s, o, d, i))

RunStep == settle_tick \/ settle_done \/ detect_tick

NextRun == Build \/ run_call \/ RunStep

SpecRun == Init /\ [][NextRun]_vars /\ WF_vars(RunStep)

\* ------------------------------------------------------------- every call
\* the whole interface of Scheme on a small scheme: gates asked for with one
\* input, labels declared nowhere in delete_connection too, move, and at the
\* end run
MaxCallId == 2
MaxCallObjs == 2
\* connections held when add_connection is still called
MaxCallConns == 1

CallIds == 1..MaxCallId
CallTypeArgs == {"not", "and", "bogus"}

\* run is called when every input that is connected names an output that its
\* source computes
Runnable ==
    \A a \in RegObjs : \A l \in DOMAIN heap[a].ins :
        heap[a].ins[l] # None =>
            heap[a].ins[l].output_label \in DOMAIN heap[heap[a].ins[l].source].value

NextCalls ==
    \/ \E t \in CallTypeArgs, id_ \in CallIds :
           Len(heap) < MaxCallObjs /\ Mutation(add_element(t, id_, 1, TRUE))
    \/ \E s \in CallIds, d \in CallIds, o \in OutArgs, i \in InArgs :
           /\ HeldOut(heap) < MaxCallConns /\ HeldIn(heap) < MaxCallConns
           /\ Mutation(add_connection(s, o, d, i))
    \/ \E id_ \in CallIds : Mutation(delete_element(id_))
    \/ \E s \in CallIds, d \in CallIds, o \in OutArgs, i \in InArgs :
           Mutation(delete_connection(s, o, d, i))
    \/ \E id_ \in CallIds, p \in Positions : Mutation(move(id_, p))
    \/ Mutation(clear)
    \/ Runnable /\ run_call
    \/ RunStep

SpecCalls == Init /\ [][NextCalls]_vars

\* ------------------------------------------------------------- one flip-flop
\* a gated SR flip-flop outside any scheme: its inputs are driven, it is
\* enabled and disabled, its memo is cleared and its value is read
MaxReads == 4

\* the source of input l changes what it holds (Variable.switch)
switch(l) ==
    /\ signals' = [signals EXCEPT ![l] = ~@]
    /\ UNCHANGED <<flipflop, reads>>

\* GatedSRFlipFlop.switch_enable_state
switch_enable_state ==
    /\ flipflop' = [flipflop EXCEPT !.enable_state = ~@]
    /\ UNCHANGED <<signals, reads>>

\* BasicElement.reset_value
reset_value ==
    /\ flipflop' = [flipflop EXCEPT !.value = NoValue]
    /\ UNCHANGED <<signals, reads>>

\* how an evaluation ended: the output, or the exception
Outcome(r) == IF r.raised THEN "ForbiddenSrLatchStateError" ELSE Py(r.out)

\* GatedSRFlipFlop.value: the memo if there is one, else _logic on what S and
\* R read, memoized unless it raises
value ==
    IF flipflop.value.cached
    THEN /\ last' = Result("value", "ok")
         /\ UNCHANGED alone
    ELSE \E r \in {SRLogic(flipflop, signals.S, signals.R)} :
           /\ Len(reads) < MaxReads
           /\ flipflop' = IF r.raised THEN flipflop
                          ELSE [flipflop EXCEPT !.q = r.q, !.value = Memo(r.out)]
           /\ reads' = Append(reads, [E |-> flipflop.enable_state, S |-> signals.S,
                                      R |-> signals.R, Q |-> Outcome(r)])
           /\ last' = Result("value", IF r.raised THEN Outcome(r) ELSE "ok")
           /\ UNCHANGED signals

\* a step on the flip-flop leaves the scheme alone
OnElement(step) == step /\ UNCHANGED <<scheme, pc, locals, bench, caller>>

NextFlipFlop ==
    \/ \E l \in {"S", "R"} : OnElement(switch(l) /\ UNCHANGED last)
    \/ OnElement(switch_enable_state /\ UNCHANGED last)
    \/ OnElement(reset_value /\ UNCHANGED last)
    \/ OnElement(value)

SpecFlipFlop == Init /\ [][NextFlipFlop]_vars

\* ------------------------------------------------------------- one element
\* an element of any of the sixteen types outside any scheme: constant sources
\* are connected to its inputs and taken off again, its memo is cleared, a
\* flip-flop is enabled and disabled, and its value is read

\* BasicElement._read_input_value: an open input reads low, a connected one
\* reads what its source holds
MutReadPin(p, l) == p[l] # "False"

ReadPin(p, l) == IF p[l] = "None" THEN FALSE ELSE p[l] = "True"

\* the loops of Multiplexer._get_number_of_selected_line and
\* Decoder._input_lines_to_number: 2 ** i for every line i + 1 that reads high
RECURSIVE LinesToNumber(_, _, _, _)
LinesToNumber(p, base, size, i) ==
    IF i = size THEN 0
    ELSE (IF ReadPin(p, Pin(base, i + 1)) THEN 2 ^ i ELSE 0)
         + LinesToNumber(p, base, size, i + 1)

\* Multiplexer._get_number_of_selected_line
get_number_of_selected_line(p, size) == LinesToNumber(p, "sel", size, 0) + 1

\* Decoder._input_lines_to_number
MutDecoderNumber(p, size) == LinesToNumber(p, "input line ", size, 0)

DecoderNumber(p, size) == LinesToNumber(p, "input line ", size, 0) + 1

\* Encoder._input_lines_to_number: the first i whose line i + 1 reads high
MutEncoderNumber(p, size, i) ==
    IF \A k \in 1..(2 ^ size) : ~ReadPin(p, Pin("input line ", k)) THEN -1
    ELSE (CHOOSE k \in 1..(2 ^ size) :
              /\ ReadPin(p, Pin("input line ", k))
              /\ \A j \in (k + 1)..(2 ^ size) : ~ReadPin(p, Pin("input line ", j))) - 1

RECURSIVE EncoderNumber(_, _, _)
EncoderNumber(p, size, i) ==
    IF i = 2 ^ size THEN -1
    ELSE IF ReadPin(p, Pin("input line ", i + 1)) THEN i
    ELSE EncoderNumber(p, size, i + 1)

\* Encoder.value: the while loop writing the remainders
MutEncoderBits(dict, number, idx) ==
    IF number > 0 THEN DictPut(dict, Pin("output line ", idx), TRUE) ELSE dict

RECURSIVE EncoderBits(_, _, _)
EncoderBits(dict, number, idx) ==
    IF number > 0
    THEN EncoderBits(DictPut(dict, Pin("output line ", idx), number % 2 = 1),
                     number \div 2, idx + 1)
    ELSE dict

\* AdderSubtractor._get_number, and RightShifter._read_input with invert False
MutGetNumber(p, base, size, invert) ==
    [i \in 0..(size - 1) |-> ReadPin(p, Pin(base, i))]

get_number(p, base, size, invert) ==
    [i \in 0..(size - 1) |-> ReadPin(p, Pin(base, i)) # invert]

\* AdderSubtractor.value: the loop over the bits
RECURSIVE Ripple(_, _, _, _, _, _)
Ripple(dict, number_A, number_B, carry, i, size) ==
    IF i = size THEN DictPut(dict, "Cout", carry)
    ELSE Ripple(DictPut(dict, Pin("S", i), (number_A[i] # number_B[i]) # carry),
                number_A, number_B,
                (number_A[i] /\ number_B[i]) \/ (number_A[i] /\ carry)
                    \/ (number_B[i] /\ carry),
                i + 1, size)

\* RightShifter.value: the inner loop over j for out{i}
MutShiftBit(acc, to_shift, shift_by, i, j) ==
    LET asserted == {k \in 0..i : shift_by[k]}
    IN  IF asserted = {} THEN acc
        ELSE to_shift[i - (CHOOSE k \in asserted : \A m \in asserted : k <= m)]

RECURSIVE ShiftBit(_, _, _, _, _)
ShiftBit(acc, to_shift, shift_by, i, j) ==
    IF j = i + 1 THEN acc
    ELSE ShiftBit(acc \/ (to_shift[i - j] /\ shift_by[j]), to_shift, shift_by, i, j + 1)

\* the value properties of the sixteen types, when there is no memo: the
\* dict of outputs, the retained bit afterwards and whether
\* ForbiddenSrLatchStateError is raised
UnitValue(u, p) ==
    LET t == u.element_type
        n == u.size
        plain(dict) == [outputs |-> dict, q |-> u.q, raised |-> FALSE]
        latch(r) == [outputs |-> [l \in {"Q"} |-> r.out], q |-> r.q, raised |-> r.raised]
        state == [enable_state |-> u.flag, q |-> u.q]
        low == [l \in UnitOuts(t, n) |-> FALSE]
    IN  CASE t \in BasicLogicGates ->
                 plain([l \in {"out"} |->
                     logic_of_element(TypeTag(t), [k \in 1..n |-> ReadPin(p, Pin("in", k))])])
          [] t = "not" -> plain([l \in {"out"} |-> ~ReadPin(p, "in")])
          [] t \in {"constant", "variable"} -> plain([l \in {"out"} |-> u.flag])
          [] t = "multiplexer" ->
                 plain([l \in {"out"} |->
                     ReadPin(p, Pin("in", get_number_of_selected_line(p, n)))])
          [] t = "encoder" -> plain(EncoderBits(low, EncoderNumber(p, n, 0), 1))
          [] t = "decoder" ->
                 plain(DictPut(low, Pin("output line ", DecoderNumber(p, n)), TRUE))
          [] t = "fulladder" ->
                 LET bitA == ReadPin(p, "A")
                     bitB == ReadPin(p, "B")
                     carry_in == ReadPin(p, "Cin")
                 IN  plain([l \in {"S", "Cout"} |->
                         IF l = "S" THEN (bitA # bitB) # carry_in
                         ELSE (bitA /\ bitB) \/ (bitA /\ carry_in) \/ (bitB /\ carry_in)])
          [] t = "addersubtractor" ->
                 LET sub == ReadPin(p, "sub")
                 IN  plain(Ripple(Empty, get_number(p, "A", n, FALSE),
                                  get_number(p, "B", n, sub), sub, 0, n))
          [] t = "shifter" ->
                 LET shift_by == get_number(p, "shift_line", n, FALSE)
                     to_shift == get_number(p, "in", n, FALSE)
                 IN  plain([l \in UnitOuts(t, n) |->
                         LET i == CHOOSE k \in 0..(n - 1) : l = Pin("out", k)
                         IN  ShiftBit(FALSE, to_shift, shift_by, i, 0)])
          [] t = "srflipflop" -> latch(SRLogic(state, ReadPin(p, "S"), ReadPin(p, "R")))
          [] OTHER -> latch(DLogic(state, ReadPin(p, "D")))

\* the types and, for those that take one, the sizes that are constructed
UnitTypes ==
    {"and", "or", "xor", "nand", "nor", "not", "constant", "variable", "multiplexer",
     "encoder", "decoder", "fulladder", "addersubtractor", "shifter", "srflipflop",
     "dflipflop"}

UnitSizes(element_type) ==
    CASE element_type \in BasicLogicGates \cup {"shifter"} -> {2, 3}
      [] element_type \in {"multiplexer", "encoder", "decoder", "addersubtractor"} -> {1, 2}
      [] OTHER -> {0}

UnitFlags(element_type) ==
    IF element_type \in {"constant", "variable", "srflipflop", "dflipflop"}
    THEN BOOLEAN ELSE {TRUE}

\* a new element is constructed
unit_build(element_type, size, flag) ==
    /\ unit' = Unit(element_type, size, flag)
    /\ pins' = Open(element_type, size)
    /\ UNCHANGED last

\* set_input_connection with a Connection from a Constant that holds b
unit_connect(l, b) ==
    /\ pins' = [pins EXCEPT ![l] = Py(b)]
    /\ UNCHANGED <<unit, last>>

\* delete_input_connection
unit_disconnect(l) ==
    /\ pins' = [pins EXCEPT ![l] = "None"]
    /\ UNCHANGED <<unit, last>>

\* BasicElement.reset_value
Mut_unit_reset_value ==
    /\ unit' = Unit(unit.element_type, unit.size, unit.flag)
    /\ UNCHANGED <<pins, last>>

unit_reset_value ==
    /\ unit' = [unit EXCEPT !.value = NoOutputs]
    /\ UNCHANGED <<pins, last>>

\* switch_enable_state of the two flip-flops
unit_switch_enable_state ==
    /\ unit.element_type \in {"srflipflop", "dflipflop"}
    /\ unit' = [unit EXCEPT !.flag = ~@]
    /\ UNCHANGED <<pins, last>>

\* the value property: the memo if there is one, else the outputs are
\* computed and memoized (for a Constant and a Variable, which compute their
\* dict at every read, value keeps the dict last returned)
unit_value ==
    /\ IF unit.value.cached
       THEN /\ last' = Result("value", "ok")
            /\ UNCHANGED unit
       ELSE \E r \in {UnitValue(unit, pins)} :
              IF r.raised
              THEN /\ last' = Result("value", "ForbiddenSrLatchStateError")
                   /\ UNCHANGED unit
              ELSE /\ last' = Result("value", "ok")
                   /\ unit' = [unit EXCEPT !.q = r.q, !.value = Outputs(r.outputs)]
    /\ UNCHANGED pins

\* a step on the element leaves the scheme and the flip-flop alone
OnUnit(step) == step /\ UNCHANGED <<scheme, pc, locals, alone, caller, encoder>>

NextUnit ==
    \/ \E t \in UnitTypes : \E n \in UnitSizes(t), f \in UnitFlags(t) :
           OnUnit(unit_build(t, n, f))
    \/ \E l \in DOMAIN pins, b \in BOOLEAN : OnUnit(unit_connect(l, b))
    \/ \E l \in DOMAIN pins : OnUnit(unit_disconnect(l))
    \/ OnUnit(unit_reset_value)
    \/ OnUnit(unit_switch_enable_state)
    \/ OnUnit(unit_value)

SpecUnit == Init /\ [][NextUnit]_vars

\* ------------------------------------------------------------- decoder to encoder
\* a Decoder and an Encoder of the same size, output line k of the first
\* connected to input line k of the second, both used without a Scheme
MaxLines == 2

\* the two are constructed and connected
Wired == unit.element_type = "decoder" /\ encoder.size = unit.size

\* what the Encoder's inputs read: input line k reads
\* connection.source.value['output line k'], the Decoder's dict
Across(outputs, size) ==
    [l \in UnitIns("encoder", size) |->
        Py(outputs[Pin("output line ",
                       CHOOSE k \in 1..(2 ^ size) : l = Pin("input line ", k))])]

\* Decoder(...), Encoder(...), and a Connection for each line
codec_build(size) ==
    /\ unit' = Unit("decoder", size, TRUE)
    /\ pins' = Open("decoder", size)
    /\ encoder' = Unit("encoder", size, TRUE)
    /\ UNCHANGED last

\* reset_value on the Encoder
encoder_reset_value ==
    /\ encoder' = [encoder EXCEPT !.value = NoOutputs]
    /\ UNCHANGED <<unit, pins, last>>

\* the Encoder's value property: its memo if there is one, else it reads its
\* input lines, and the first read takes the Decoder's value: the Decoder's
\* memo if there is one, else the Decoder is evaluated and memoized
encoder_value ==
    /\ last' = Result("encoder_value", "ok")
    /\ IF encoder.value.cached
       THEN UNCHANGED <<unit, encoder>>
       ELSE \E d \in {IF unit.value.cached THEN unit.value
                      ELSE Outputs(UnitValue(unit, pins).outputs)} :
              /\ unit' = [unit EXCEPT !.value = d]
              /\ encoder' = [encoder EXCEPT !.value =
                     Outputs(UnitValue(encoder, Across(d.outputs, encoder.size)).outputs)]
    /\ UNCHANGED pins

\* a step on the pair leaves the scheme and the flip-flop alone
OnCodec(step) == step /\ UNCHANGED <<scheme, pc, locals, alone, caller>>

\* a step on the Decoder of the pair
OnDecoder(step) == OnCodec(Wired /\ step /\ UNCHANGED encoder)

NextCodec ==
    \/ \E n \in 1..MaxLines : OnCodec(codec_build(n))
    \/ \E l \in DOMAIN pins, b \in BOOLEAN : OnDecoder(unit_connect(l, b))
    \/ \E l \in DOMAIN pins : OnDecoder(unit_disconnect(l))
    \/ OnDecoder(unit_reset_value)
    \/ OnDecoder(unit_value)
    \/ OnCodec(Wired /\ encoder_reset_value)
    \/ OnCodec(Wired /\ encoder_value)

SpecCodec == Init /\ [][NextCodec]_vars

\* ------------------------------------------------------------- forcing inputs
\* a scheme of Variables and gated SR flip-flops: the callers add, connect,
\* disconnect, delete and move elements, then call run, and before a run and
\* after it switch the Variables and the enable states of the elements they
\* iterate over
MaxLatchId == 2
MaxLatchObjs == 2
MaxLatchConns == 2
LatchIds == 1..MaxLatchId
LatchTypeArgs == {"variable", "srflipflop"}

\* Variable.switch on the element with this id
element_switch(id_) ==
    /\ id_ \in RegIds
    /\ heap[ObjOf(id_)].element_type = "VARIABLE"
    /\ heap' = [heap EXCEPT ![ObjOf(id_)].constant_value = ~@]
    /\ last' = Result("switch", "ok")
    /\ UNCHANGED elements

\* GatedSRFlipFlop.switch_enable_state on the element with this id
element_switch_enable_state(id_) ==
    /\ id_ \in RegIds
    /\ heap[ObjOf(id_)].element_type = "SR_FLIPFLOP"
    /\ heap' = [heap EXCEPT ![ObjOf(id_)].enable_state = ~@]
    /\ last' = Result("switch_enable_state", "ok")
    /\ UNCHANGED elements

\* a call made when no run is in progress, before a run or after one; the
\* next run is no longer a run called twice in a row
Between(call) ==
    /\ pc \in {"idle", "returned", "raised"}
    /\ call
    /\ returned' = NoResult
    /\ UNCHANGED <<pc, locals, alone, bench, before>>

NextLatch ==
    \/ \E t \in LatchTypeArgs, id_ \in LatchIds :
           Len(heap) < MaxLatchObjs /\ Mutation(add_element(t, id_, 2, TRUE))
    \/ \E s \in RegIds, d \in RegIds :
           \E o \in DOMAIN heap[ObjOf(s)].outs, i \in DOMAIN heap[ObjOf(d)].ins :
               /\ HeldOut(heap) < MaxLatchConns /\ HeldIn(heap) < MaxLatchConns
               /\ Mutation(add_connection(s, o, d, i))
    \/ \E s \in RegIds, d \in RegIds :
           \E o \in DOMAIN heap[ObjOf(s)].outs, i \in DOMAIN heap[ObjOf(d)].ins :
               Mutation(delete_connection(s, o, d, i))
    \/ \E id_ \in LatchIds : Mutation(delete_element(id_))
    \/ \E id_ \in LatchIds, p \in Positions : Mutation(move(id_, p))
    \/ \E id_ \in LatchIds : Between(element_switch(id_))
    \/ \E id_ \in LatchIds : Between(element_switch_enable_state(id_))
    \/ run_call
    \/ RunStep

SpecLatch == Init /\ [][NextLatch]_vars

\* ------------------------------------------------------------- claims
\* the connections an element holds, in its input slots and output lists
HeldBy(h, a) ==
    {h[a].ins[l] : l \in {x \in DOMAIN h[a].ins : h[a].ins[x] # None}}
    \cup UNION {{h[a].outs[l][k] : k \in 1..Len(h[a].outs[l])} : l \in DOMAIN h[a].outs}

Registered(id_) == id_ \in RegIds

\* C1: no element of the registry holds, in an input slot or an output list,
\* a Connection whose source or destination is no longer in the registry.
C1_NoDanglingReference ==
    \A a \in RegObjs : \A c \in HeldBy(heap, a) :
        c.source \in RegObjs /\ c.destination \in RegObjs

\* C2: add_connection to an input slot that already holds a Connection
\* raises InputIsTakenError and leaves that slot, the source's output lists
\* and everything else of the scheme as they were.
C2_TakenInputRejected ==
    [][\A s \in Ids, d \in Ids, o \in OutArgs, i \in InArgs :
          ( /\ last'.op = "add_connection"
            /\ Registered(s) /\ Registered(d)
            /\ i \in DOMAIN heap[ObjOf(d)].ins
            /\ heap[ObjOf(d)].ins[i] # None
            /\ Mutation(add_connection(s, o, d, i)) )
          => /\ last' = Result("add_connection", "InputIsTakenError")
             /\ heap'[ObjOf(d)].ins[i] = heap[ObjOf(d)].ins[i]
             /\ heap'[ObjOf(s)].outs = heap[ObjOf(s)].outs
             /\ UNCHANGED scheme]_vars

\* C2's case: the call was rejected and the slot is still occupied
C2_Witness ==
    /\ last = Result("add_connection", "InputIsTakenError")
    /\ \E a \in RegObjs : \E l \in DOMAIN heap[a].ins :
           heap[a].ins[l] # None /\ heap[a].ins[l].source # a

\* C9: a successful add_connection(s, o, d, i) puts the Connection in d's
\* slot i and at the end of s's list o, and changes no other slot, no other
\* list, no set of pin names and no registry entry.
C9_AddConnectionFrame ==
    [][\A s \in Ids, d \in Ids, o \in OutArgs, i \in InArgs :
          ( /\ last' = Result("add_connection", "ok")
            /\ Registered(s) /\ Registered(d)
            /\ Mutation(add_connection(s, o, d, i)) )
          => LET src == ObjOf(s)
                 dst == ObjOf(d)
                 c == Connection(src, o, dst, i)
             IN  /\ elements' = elements
                 /\ DOMAIN heap' = DOMAIN heap
                 /\ heap'[dst].ins[i] = c
                 /\ heap'[src].outs[o] = Append(heap[src].outs[o], c)
                 /\ \A a \in DOMAIN heap :
                      /\ DOMAIN heap'[a].ins = DOMAIN heap[a].ins
                      /\ DOMAIN heap'[a].outs = DOMAIN heap[a].outs
                      /\ \A l \in DOMAIN heap[a].ins :
                             (a # dst \/ l # i) => heap'[a].ins[l] = heap[a].ins[l]
                      /\ \A l \in DOMAIN heap[a].outs :
                             (a # src \/ l # o) => heap'[a].outs[l] = heap[a].outs[l]]_vars

\* C9's case: a connection was added to an output that already had one
C9_Witness ==
    /\ last = Result("add_connection", "ok")
    /\ \E a \in RegObjs : \E l \in DOMAIN heap[a].outs :
           /\ Len(heap[a].outs[l]) = 2
           /\ heap[a].outs[l][1] # heap[a].outs[l][2]
           /\ \A k \in 1..2 :
                  LET c == heap[a].outs[l][k]
                  IN  heap[c.destination].ins[c.input_label] = c

\* the registry has no id twice
UniqueIds ==
    \A j \in 1..Len(elements), k \in 1..Len(elements) :
        elements[j].id = elements[k].id => j = k

\* C10: add_element with a registered id raises IdIsAlreadyTakenError for
\* every type and parameter, the registry still maps the id to the same
\* element with its pin tables as they were, and no id is registered twice.
C10_DuplicateIdRejected ==
    /\ []UniqueIds
    /\ [][\A t \in {"not", "and", "constant", "bogus"}, id_ \in Ids,
               n \in 1..2, f \in BOOLEAN :
             ( /\ last'.op = "add_element"
               /\ Registered(id_)
               /\ Mutation(add_element(t, id_, n, f)) )
             => /\ last' = Result("add_element", "IdIsAlreadyTakenError")
                /\ ObjOf(id_)' = ObjOf(id_)
                /\ heap'[ObjOf(id_)] = heap[ObjOf(id_)]
                /\ UNCHANGED scheme]_vars

\* C10's case: the call was rejected for an element that has connections
C10_Witness ==
    /\ last = Result("add_element", "IdIsAlreadyTakenError")
    /\ \E a \in RegObjs : HeldBy(heap, a) # {}

\* a scheme of one NOT gate whose output feeds its own input
SingleNotLoop ==
    /\ Len(elements) = 1
    /\ LET a == elements[1].obj
       IN  /\ heap[a].element_type = "NOT"
           /\ heap[a].ins["in"] = Connection(a, "out", a, "in")

\* C3: on a single NOT gate wired to itself, run returns, and its result
\* reports the gate's out as unresolved.
C3_NotLoopUnresolved ==
    (SingleNotLoop /\ pc = "settle")
        ~> ( /\ SingleNotLoop
             /\ pc = "returned"
             /\ final_out_values[elements[1].id]["out"] = "None" )

\* C3's case: run has returned on the self-wired NOT gate
C3_Witness ==
    /\ SingleNotLoop
    /\ pc = "returned"
    /\ final_out_values[elements[1].id]["out"] = "None"
    /\ Len(records_of_out_values) = 2

\* the vector is one of the recorded ones
Seen(vector, records) == \E k \in 1..Len(records) : records[k] = vector

\* no vector is recorded twice
NoRepeat(records) ==
    \A j \in 1..Len(records), k \in 1..Len(records) : records[j] = records[k] => j = k

\* an enabled SR flip-flop of the registry reads S = R = 1
ForbiddenDriven ==
    \E a \in RegObjs :
        /\ heap[a].element_type = "SR_FLIPFLOP"
        /\ heap[a].enable_state
        /\ read_input_value(heap, a, "S")
        /\ read_input_value(heap, a, "R")

\* C4: run ends on every scheme; it is aborted only by an enabled SR flip-flop
\* driven with S = R = 1, and otherwise returns at the first detection tick
\* whose vector was recorded before.
C4_RunTerminates ==
    /\ (pc = "settle") ~> (pc \in {"returned", "raised"})
    /\ [](pc = "raised" => ForbiddenDriven)
    /\ [](pc \in {"detect", "returned"} => NoRepeat(records_of_out_values))
    /\ [](pc = "returned" => Seen(cur_out_values, records_of_out_values))
    /\ [][pc = "detect" /\ pc' = "detect"
             => ~Seen(cur_out_values', records_of_out_values)]_vars

\* C4's case: run has returned on a circuit with a feedback loop after more
\* than two detection ticks
C4_Witness ==
    /\ pc = "returned"
    /\ Len(elements) > 1
    /\ Len(records_of_out_values) > 2

\* the pins of run's result
ResultPins ==
    {p \in (DOMAIN final_out_values) \X {"out", "Q"} :
        p[2] \in DOMAIN final_out_values[p[1]]}

\* the pin took two values among the recorded ticks from the from-th on
Differed(id_, l, from) ==
    \E j \in from..Len(records_of_out_values), k \in from..Len(records_of_out_values) :
        records_of_out_values[j][id_][l] # records_of_out_values[k][id_][l]

\* C5: a pin of run's result is unresolved if and only if it took two values
\* among the ticks of the detection phase, and a pin that never changed in
\* that phase is reported with the value it had.
C5_UnresolvedIffDiffered ==
    pc = "returned" =>
        \A p \in ResultPins :
            /\ final_out_values[p[1]][p[2]] = "None" <=> Differed(p[1], p[2], 1)
            /\ ~Differed(p[1], p[2], 1) =>
                   final_out_values[p[1]][p[2]] = Py(records_of_out_values[1][p[1]][p[2]])

\* the tick whose vector the last tick repeated
PeriodStart ==
    CHOOSE j \in 1..Len(records_of_out_values) : records_of_out_values[j] = cur_out_values

\* C6: a pin reported as unresolved takes two values within the detected
\* period, the ticks from the recorded vector that was repeated on.
C6_UnresolvedWithinPeriod ==
    pc = "returned" =>
        \A p \in ResultPins :
            final_out_values[p[1]][p[2]] = "None" => Differed(p[1], p[2], PeriodStart)

\* the elements whose outputs the element at a reads
Sources(a) ==
    {heap[a].ins[l].source : l \in {x \in DOMAIN heap[a].ins : heap[a].ins[x] # None}}

RECURSIVE Upstream(_, _)
Upstream(S, n) ==
    IF n = 0 THEN S ELSE Upstream(S \cup UNION {Sources(x) : x \in S}, n - 1)

\* the connections of the registry's elements form no cycle
Acyclic == \A a \in RegObjs : a \notin Upstream(Sources(a), Len(heap))

\* the heap with every element holding the values run reported for it
Reported ==
    [a \in DOMAIN heap |->
        [heap[a] EXCEPT !.value =
            [l \in DOMAIN @ |-> final_out_values[heap[a].id][l] = "True"]]]

\* C7: on a scheme with no cycle, run reports no unresolved pin, and every
\* reported output is the element's logic applied to the reported values of
\* the pins that feed it.
C7_AcyclicSettles ==
    (pc = "returned" /\ Acyclic) =>
        \A a \in RegObjs : \A l \in DOMAIN heap[a].value :
            /\ final_out_values[heap[a].id][l] # "None"
            /\ ~Evaluate(Reported, a).raised
            /\ final_out_values[heap[a].id][l] = Py(Evaluate(Reported, a).value[l])

\* C7's case: run has returned on a chain as long as the scheme
C7_Witness ==
    /\ pc = "returned"
    /\ Acyclic
    /\ Len(elements) = MaxRunElems
    /\ \E a \in RegObjs : Upstream(Sources(a), Len(heap)) = RegObjs \ {a}
    /\ \E a \in RegObjs : Sources(a) # {} /\ heap[a].value # InitValue("not")

\* the vector a tick yields when every element reads the held values only
SyncVector(h) == [id_ \in RegIds |-> Evaluate(h, ObjOf(id_)).value]

\* C8: every tick of run, of the settle phase and of the detection phase,
\* yields the vector computed from the values held when the tick began.
C8_TickSynchronous ==
    [][ /\ (pc = "settle" /\ tick' = tick + 1)
            => values_to_update' = SyncVector(heap)
        /\ (pc = "detect" /\ pc' \in {"detect", "returned"})
            => cur_out_values' = SyncVector(heap) ]_vars

\* C8, for the settle phase alone
C8_SettleSynchronous ==
    [][(pc = "settle" /\ tick' = tick + 1) => values_to_update' = SyncVector(heap)]_vars

\* C11: add_element with a free id raises WrongElementTypeError when the type
\* name is not in the type table and when the parameters are invalid for the
\* type (a gate with fewer than two inputs), and registers no element.
C11_InvalidElementRejected ==
    [][\A t \in CallTypeArgs, id_ \in CallIds, n \in 1..2 :
          ( /\ last'.op = "add_element"
            /\ ~Registered(id_)
            /\ (t \notin TypeTable \/ (t \in BasicLogicGates /\ n < 2))
            /\ Mutation(add_element(t, id_, n, TRUE)) )
          => /\ last' = Result("add_element", "WrongElementTypeError")
             /\ UNCHANGED scheme]_vars

\* C12: a call given an id that is not in the registry raises NoSuchIdError
\* and changes nothing: add_connection with an absent source or destination,
\* delete_element and move.
C12_AbsentIdRejected ==
    [][ /\ \A s \in CallIds, d \in CallIds, o \in OutArgs, i \in InArgs :
             ( /\ last'.op = "add_connection"
               /\ (~Registered(s) \/ ~Registered(d))
               /\ Mutation(add_connection(s, o, d, i)) )
             => /\ last' = Result("add_connection", "NoSuchIdError")
                /\ UNCHANGED scheme
        /\ \A id_ \in CallIds :
             ( /\ last'.op = "delete_element"
               /\ ~Registered(id_)
               /\ Mutation(delete_element(id_)) )
             => /\ last' = Result("delete_element", "NoSuchIdError")
                /\ UNCHANGED scheme
        /\ \A id_ \in CallIds, p \in Positions :
             ( /\ last'.op = "move"
               /\ ~Registered(id_)
               /\ Mutation(move(id_, p)) )
             => /\ last' = Result("move", "NoSuchIdError")
                /\ UNCHANGED scheme ]_vars

\* C13: add_connection between two registered elements raises
\* NoSuchInputLabelError when the input label is not one the destination was
\* constructed with and NoSuchOutputLabelError when the output label is not one
\* the source was constructed with (an occupied input may be reported
\* instead), and in either case the scheme is left as it was.
C13_UndeclaredLabelRejected ==
    [][\A s \in CallIds, d \in CallIds, o \in OutArgs, i \in InArgs :
          ( /\ last'.op = "add_connection"
            /\ Registered(s) /\ Registered(d)
            /\ (o \notin MadeOuts(heap[ObjOf(s)]) \/ i \notin MadeIns(heap[ObjOf(d)]))
            /\ Mutation(add_connection(s, o, d, i)) )
          => /\ i \notin MadeIns(heap[ObjOf(d)])
                  => last'.err = "NoSuchInputLabelError"
             /\ i \in MadeIns(heap[ObjOf(d)])
                  => last'.err \in {"NoSuchOutputLabelError", "InputIsTakenError"}
             /\ (i \in MadeIns(heap[ObjOf(d)]) /\ heap[ObjOf(d)].ins[i] = None)
                  => last'.err = "NoSuchOutputLabelError"
             /\ UNCHANGED scheme]_vars

\* every element, registered or not, has the pins its constructor made
PinsAsMade ==
    \A a \in DOMAIN heap :
        /\ DOMAIN heap[a].ins = MadeIns(heap[a])
        /\ DOMAIN heap[a].outs = MadeOuts(heap[a])

\* C19: after any sequence of calls every element has exactly the input and
\* output pins it was constructed with, and an add_connection or
\* delete_connection call on registered elements that names a label the
\* element was not constructed with is an error.
C19_PinsFixedAtConstruction ==
    /\ []PinsAsMade
    /\ [][\A s \in CallIds, d \in CallIds, o \in OutArgs, i \in InArgs :
             ( /\ last'.op \in {"add_connection", "delete_connection"}
               /\ Registered(s) /\ Registered(d)
               /\ (o \notin MadeOuts(heap[ObjOf(s)]) \/ i \notin MadeIns(heap[ObjOf(d)]))
               /\ \/ Mutation(add_connection(s, o, d, i))
                  \/ Mutation(delete_connection(s, o, d, i)) )
             => last'.err # "ok"]_vars

\* C14: delete_connection(s, o, d, i) on registered elements, with labels
\* they were constructed with, leaves d's slot i empty and s's list o empty,
\* whatever connections the list held, and changes no other slot, no other
\* list, no set of pin names and no registry entry.
C14_DeleteConnectionFrame ==
    [][\A s \in Ids, d \in Ids, o \in OutArgs, i \in InArgs :
          ( /\ last'.op = "delete_connection"
            /\ Registered(s) /\ Registered(d)
            /\ o \in MadeOuts(heap[ObjOf(s)]) /\ i \in MadeIns(heap[ObjOf(d)])
            /\ Mutation(delete_connection(s, o, d, i)) )
          => LET src == ObjOf(s)
                 dst == ObjOf(d)
             IN  /\ last' = Result("delete_connection", "ok")
                 /\ elements' = elements
                 /\ DOMAIN heap' = DOMAIN heap
                 /\ heap'[dst].ins[i] = None
                 /\ heap'[src].outs[o] = <<>>
                 /\ \A a \in DOMAIN heap :
                      /\ DOMAIN heap'[a].ins = DOMAIN heap[a].ins
                      /\ DOMAIN heap'[a].outs = DOMAIN heap[a].outs
                      /\ \A l \in DOMAIN heap[a].ins :
                             (a # dst \/ l # i) => heap'[a].ins[l] = heap[a].ins[l]
                      /\ \A l \in DOMAIN heap[a].outs :
                             (a # src \/ l # o) => heap'[a].outs[l] = heap[a].outs[l]]_vars

\* C14's case: the call emptied the output list of an element and one input
\* slot, and another input still holds a Connection from that element
C14_Witness ==
    /\ last = Result("delete_connection", "ok")
    /\ \E a \in RegObjs, b \in RegObjs, c \in RegObjs :
           /\ b # c
           /\ heap[a].outs["out"] = <<>>
           /\ heap[b].ins["in"] = None
           /\ heap[c].ins["in"] = Connection(a, "out", c, "in")

\* C15: from every reachable state of the scheme, clear ends without raising
\* and leaves the registry empty.
C15_ClearEmpties ==
    [][(last'.op = "clear" /\ Mutation(clear))
          => last' = Result("clear", "ok") /\ elements' = <<>>]_vars

\* C15's case: clear has returned on a scheme of several elements, and no
\* element is left holding a connection
C15_Witness ==
    /\ last = Result("clear", "ok")
    /\ elements = <<>>
    /\ Len(heap) = MaxObjs
    /\ \A a \in DOMAIN heap : HeldBy(heap, a) = {}

\* C16: a successful add_element registers the id with an element that has no
\* connection and touches no other element, and delete_element of that id
\* right after it gives back the set of ids there was before the add and
\* leaves the pin tables of every other element as they were.
C16_AddThenDeleteRestores ==
    /\ [][\A t \in TypeArgs, id_ \in Ids :
             ( /\ last' = Result("add_element", "ok")
               /\ Mutation(add_element(t, id_, 2, TRUE)) )
             => /\ id_ \notin RegIds
                /\ RegIds' = RegIds \cup {id_}
                /\ elements'[Len(elements')].id = id_
                /\ HeldBy(heap', ObjOf(id_)') = {}
                /\ \A a \in DOMAIN heap : heap'[a] = heap[a]]_vars
    /\ [][\A id_ \in Ids :
             ( /\ last = Result("add_element", "ok")
               /\ last'.op = "delete_element"
               /\ id_ = elements[Len(elements)].id
               /\ Mutation(delete_element(id_)) )
             => /\ last' = Result("delete_element", "ok")
                /\ RegIds' = RegIds \ {id_}
                /\ \A a \in DOMAIN heap \ {ObjOf(id_)} :
                       /\ heap'[a].ins = heap[a].ins
                       /\ heap'[a].outs = heap[a].outs]_vars

\* C16's case: the element constructed last was deleted, it never had a
\* connection, and the elements that were there before still have theirs
C16_Witness ==
    /\ last = Result("delete_element", "ok")
    /\ Len(heap) \notin RegObjs
    /\ HeldBy(heap, Len(heap)) = {}
    /\ Len(elements) = 2
    /\ \A a \in RegObjs : HeldBy(heap, a) # {}

\* what iterating over the scheme yields: the registry's elements in its order
Iterate == [k \in 1..Len(elements) |-> elements[k].obj]

\* the registry without the entry of an id, the others in their order
Without(d, id_) == SelectSeq(d, LAMBDA entry : entry.id # id_)

C18_ResultShape ==
    pc = "returned" =>
        /\ DOMAIN final_out_values = RegIds
        /\ \A id_ \in RegIds :
               /\ DOMAIN final_out_values[id_] = MadeOuts(heap[ObjOf(id_)])
               /\ \A l \in DOMAIN final_out_values[id_] :
                      final_out_values[id_][l] \in {"True", "False", "None"}

\* C18's case: run has returned on three elements of which one is a flip-flop,
\* with a pin of each kind in the result
C18_Witness ==
    /\ pc = "returned"
    /\ Len(elements) = 3
    /\ \E id_ \in RegIds : DOMAIN final_out_values[id_] = {"Q"}
    /\ \E id_ \in RegIds : final_out_values[id_] = [out |-> "None"]
    /\ \E id_ \in RegIds : \E l \in DOMAIN final_out_values[id_] :
           final_out_values[id_][l] = "True"

\* one evaluation as reads keeps it
Read(e, s, r, q) == [E |-> e, S |-> s, R |-> r, Q |-> q]

\* the inputs of the four evaluations: set, hold, forbidden, and reset while
\* disabled
SetHoldForbiddenReset ==
    /\ Len(reads) = 4
    /\ \E q1 \in {reads[1].Q}, q2 \in {reads[2].Q}, q3 \in {reads[3].Q},
          q4 \in {reads[4].Q} :
           reads = << Read(TRUE, TRUE, FALSE, q1), Read(TRUE, FALSE, FALSE, q2),
                      Read(TRUE, TRUE, TRUE, q3), Read(FALSE, FALSE, TRUE, q4) >>

\* C20: an evaluation of the gated SR flip-flop with no memo gives, while
\* enabled, Q and retained bit true on S=1,R=0, false on S=0,R=1, the retained
\* bit unchanged on S=R=0, and ForbiddenSrLatchStateError on S=R=1; while
\* disabled, the retained bit, unchanged, for every S and R. Over the
\* evaluations set, hold, forbidden, reset-while-disabled Q is true throughout.
C20_GatedSRFlipFlop ==
    /\ [][( /\ last'.op = "value"
            /\ ~flipflop.value.cached
            /\ OnElement(value) )
          => LET e == flipflop.enable_state
                 s == signals.S
                 r == signals.R
                 ok(b) == /\ last' = Result("value", "ok")
                          /\ flipflop'.value = Memo(b)
                          /\ flipflop'.q = b
             IN  /\ (e /\ s /\ ~r) => ok(TRUE)
                 /\ (e /\ ~s /\ r) => ok(FALSE)
                 /\ (e /\ ~s /\ ~r) => ok(flipflop.q)
                 /\ (e /\ s /\ r) =>
                        /\ last' = Result("value", "ForbiddenSrLatchStateError")
                        /\ flipflop' = flipflop
                 /\ ~e => ok(flipflop.q)]_vars
    /\ [](SetHoldForbiddenReset =>
              /\ reads[1].Q = "True"
              /\ reads[2].Q = "True"
              /\ reads[3].Q = "ForbiddenSrLatchStateError"
              /\ reads[4].Q = "True"
              /\ flipflop.q)

\* C20's case: the four evaluations were made, the last one with the
\* flip-flop disabled and R high
C20_Witness ==
    /\ SetHoldForbiddenReset
    /\ last = Result("value", "ok")
    /\ ~flipflop.enable_state
    /\ flipflop.value = Memo(TRUE)

\* a read of the element's value that evaluates it, there being no memo
Evaluation == ~unit.value.cached /\ last'.op = "value" /\ OnUnit(unit_value)

\* the input is connected to a source that holds high
High(l) == pins[l] = "True"

\* the number that the lines base(from) .. base(to) spell, line i weighing
\* 2 ^ (i - from), in a dict of booleans
Number(dict, base, from, to) ==
    Sum([i \in from..to |-> IF dict[Pin(base, i)] THEN 2 ^ (i - from) ELSE 0], from..to)

\* the inputs as a dict of booleans
Driven == [l \in DOMAIN pins |-> High(l)]

\* the pins with a low constant on every open input
Lowered == [l \in DOMAIN pins |-> IF pins[l] = "None" THEN "False" ELSE pins[l]]

\* C22: reset_value on an SR or a D flip-flop clears the memo and leaves the
\* retained bit and the enable state alone, and an evaluation with S=R=0
\* (SR) or while disabled (SR, D) returns the retained bit and keeps it.
C22_ResetKeepsRetainedBit ==
    /\ [][(unit.element_type \in {"srflipflop", "dflipflop"} /\ OnUnit(unit_reset_value))
             => /\ unit'.q = unit.q
                /\ unit'.flag = unit.flag
                /\ unit'.value = NoOutputs]_vars
    /\ [][( /\ Evaluation
            /\ \/ unit.element_type \in {"srflipflop", "dflipflop"} /\ ~unit.flag
               \/ unit.element_type = "srflipflop" /\ ~High("S") /\ ~High("R") )
             => /\ last' = Result("value", "ok")
                /\ unit'.value = Outputs([l \in {"Q"} |-> unit.q])
                /\ unit'.q = unit.q]_vars

\* C22's case: a disabled D flip-flop that stored a 1 has had its memo
\* cleared and still retains the 1
C22_Witness ==
    /\ unit.element_type = "dflipflop"
    /\ ~unit.flag
    /\ unit.q
    /\ unit.value = NoOutputs
    /\ pins["D"] = "False"

\* C23: an input with no Connection reads false, and an evaluation gives the
\* outputs, or the exception, that it gives with a low constant connected to
\* every open input.
C23_OpenInputReadsLow ==
    /\ [](\A l \in DOMAIN pins : pins[l] = "None" => ~ReadPin(pins, l))
    /\ [][Evaluation
             => \E r \in {UnitValue(unit, Lowered)} :
                    IF r.raised THEN last'.err = "ForbiddenSrLatchStateError"
                    ELSE /\ last'.err = "ok"
                         /\ unit'.value = Outputs(r.outputs)]_vars

\* C23's case: a multiplexer whose select lines are open gave the input in1
C23_Witness ==
    /\ unit.element_type = "multiplexer" /\ unit.size = 2
    /\ pins["sel1"] = "None" /\ pins["sel2"] = "None"
    /\ pins["in1"] = "True" /\ pins["in2"] = "None" /\ pins["in4"] = "False"
    /\ unit.value = Outputs([l \in {"out"} |-> TRUE])

\* the n-ary and, or, parity, not-and, not-or of a tuple of bits
GateOf(element_type, bits) ==
    LET high == {k \in DOMAIN bits : bits[k]}
    IN  CASE element_type = "and" -> high = DOMAIN bits
          [] element_type = "or" -> high # {}
          [] element_type = "xor" -> Cardinality(high) % 2 = 1
          [] element_type = "nand" -> high # DOMAIN bits
          [] OTHER -> high = {}

\* C24: the out of an AND, OR, XOR, NAND, NOR gate of two or three inputs is
\* the n-ary and, or, parity, not-and, not-or of its inputs.
C24_GateReduction ==
    [][(Evaluation /\ unit.element_type \in BasicLogicGates)
          => unit'.value =
                 Outputs([l \in {"out"} |->
                     GateOf(unit.element_type,
                            [k \in 1..unit.size |-> High(Pin("in", k))])])]_vars

\* C24's case: an XOR gate with its three inputs high gave high
C24_Witness ==
    /\ unit.element_type = "xor" /\ unit.size = 3
    /\ \A l \in DOMAIN pins : High(l)
    /\ unit.value = Outputs([l \in {"out"} |-> TRUE])

\* C25: a decoder with n input lines has output line k high and every other
\* output line low, k being 1 + the sum of 2^(i-1) over the high input lines i.
C25_DecoderOneHot ==
    [][(Evaluation /\ unit.element_type = "decoder")
          => unit'.value =
                 Outputs([l \in {Pin("output line ", j) : j \in 1..(2 ^ unit.size)} |->
                     l = Pin("output line ",
                             1 + Number(Driven, "input line ", 1, unit.size))])]_vars

\* C25's case: a decoder with both input lines high gave output line 4
C25_Witness ==
    /\ unit.element_type = "decoder" /\ unit.size = 2
    /\ High("input line 1") /\ High("input line 2")
    /\ unit.value.cached
    /\ {l \in DOMAIN unit.value.outputs : unit.value.outputs[l]} = {"output line 4"}

\* the input lines of the encoder that are high
Asserted == {k \in 1..(2 ^ unit.size) : High(Pin("input line ", k))}

\* the lowest of them
Lowest == CHOOSE k \in Asserted : \A j \in Asserted : k <= j

\* the encoder has exactly its output lines
EncoderShape ==
    /\ last' = Result("value", "ok")
    /\ unit'.value.cached
    /\ DOMAIN unit'.value.outputs = {Pin("output line ", i) : i \in 1..unit.size}

C27_AdderSubtractor ==
    [][(Evaluation /\ unit.element_type = "addersubtractor")
          => LET n == unit.size
                 A == Number(Driven, "A", 0, n - 1)
                 B == Number(Driven, "B", 0, n - 1)
                 out == unit'.value.outputs
                 S == Number(out, "S", 0, n - 1)
             IN  /\ last' = Result("value", "ok")
                 /\ unit'.value.cached
                 /\ DOMAIN out = {Pin("S", i) : i \in 0..(n - 1)} \cup {"Cout"}
                 /\ ~High("sub") => S + (2 ^ n) * (IF out["Cout"] THEN 1 ELSE 0) = A + B
                 /\ High("sub") => /\ S = (A - B) % (2 ^ n)
                                   /\ out["Cout"] = (A >= B)]_vars

\* C27's case: 1 - 2 on two bits gave 3 and no carry
C27_Witness ==
    /\ unit.element_type = "addersubtractor" /\ unit.size = 2
    /\ High("sub")
    /\ High("A0") /\ ~High("A1") /\ ~High("B0") /\ High("B1")
    /\ unit.value = Outputs([l \in {"S0", "S1", "Cout"} |-> l # "Cout"])

\* C28: in a right shifter of n bits, out_i is the OR over j = 0..i of
\* in_(i-j) AND shift_line_j.
C28_RightShifter ==
    [][(Evaluation /\ unit.element_type = "shifter")
          => unit'.value =
                 Outputs([l \in {Pin("out", i) : i \in 0..(unit.size - 1)} |->
                     \E i \in 0..(unit.size - 1) :
                         /\ l = Pin("out", i)
                         /\ \E j \in 0..i :
                                High(Pin("in", i - j)) /\ High(Pin("shift_line", j))])]_vars

\* C28's case: with shift lines 0 and 2 high the word 011 gave 111, the OR
\* of the word and of the word shifted by two
C28_Witness ==
    /\ unit.element_type = "shifter" /\ unit.size = 3
    /\ High("in0") /\ High("in1") /\ ~High("in2")
    /\ High("shift_line0") /\ ~High("shift_line1") /\ High("shift_line2")
    /\ unit.value = Outputs([l \in {"out0", "out1", "out2"} |-> TRUE])

\* C30, as it is worded: among the registered elements a Connection is in its
\* destination's input slot exactly when it is in its source's output list.
C30_PinTablesSymmetric ==
    \A s \in RegIds, d \in RegIds :
        \A o \in DOMAIN heap[ObjOf(s)].outs, i \in DOMAIN heap[ObjOf(d)].ins :
            LET c == Connection(ObjOf(s), o, ObjOf(d), i)
            IN  (heap[ObjOf(d)].ins[i] = c)
                    <=> (\E k \in DOMAIN heap[ObjOf(s)].outs[o] :
                             heap[ObjOf(s)].outs[o][k] = c)

\* an enabled SR flip-flop of the scheme has S and R both connected to
\* outputs that hold high
SetAndResetHigh(h) ==
    \E a \in RegObjs :
        /\ h[a].element_type = "SR_FLIPFLOP"
        /\ h[a].enable_state
        /\ \A l \in {"S", "R"} :
               /\ h[a].ins[l] # None
               /\ h[h[a].ins[l].source].value[h[a].ins[l].output_label]

\* C21: ForbiddenSrLatchStateError is the outcome of no add_element,
\* add_connection, delete_connection, delete_element or move, whatever circuit
\* they build; it is raised only by a step of run that evaluates an enabled
\* SR flip-flop whose S and R are both high, and that run is over without a
\* result.
C21_ForbiddenOnlyInRun ==
    /\ [](last.err = "ForbiddenSrLatchStateError" => last.op = "run" /\ pc = "raised")
    /\ [][(last'.err = "ForbiddenSrLatchStateError" /\ last' # last)
             => /\ RunStep
                /\ pc' = "raised"
                /\ SetAndResetHigh(heap')]_vars
    /\ [][(pc = "raised" /\ pc' # "raised") => run_call]_vars

\* C21's case: add_element and add_connection built, without an error, a
\* high Variable on both S and R of an enabled SR flip-flop, and run raised
C21_Witness ==
    /\ pc = "raised"
    /\ last = Result("run", "ForbiddenSrLatchStateError")
    /\ \E a \in RegObjs, v \in RegObjs :
           /\ heap[a].element_type = "SR_FLIPFLOP" /\ heap[a].enable_state
           /\ heap[v].element_type = "VARIABLE" /\ heap[v].constant_value
           /\ heap[a].ins["S"] = Connection(v, "out", a, "S")
           /\ heap[a].ins["R"] = Connection(v, "out", a, "R")
           /\ Len(heap[v].outs["out"]) = 2

\* C29: no step of run changes the registry, a position, an input slot, an
\* output list, an enable state or the value of a Variable.
C29_RunFrame ==
    [][(run_call \/ RunStep)
          => /\ elements' = elements
             /\ DOMAIN heap' = DOMAIN heap
             /\ \A a \in DOMAIN heap :
                    /\ heap'[a].id = heap[a].id
                    /\ heap'[a].element_type = heap[a].element_type
                    /\ heap'[a].position = heap[a].position
                    /\ heap'[a].ins = heap[a].ins
                    /\ heap'[a].outs = heap[a].outs
                    /\ heap'[a].enable_state = heap[a].enable_state
                    /\ heap'[a].constant_value = heap[a].constant_value]_vars

\* C29's case: a run has returned that reset an SR flip-flop, moved to the
\* second cell, from a high Variable on R
C29_Witness ==
    /\ pc = "returned"
    /\ \E a \in RegObjs, v \in RegObjs :
           /\ heap[a].element_type = "SR_FLIPFLOP" /\ heap[a].enable_state
           /\ heap[a].position = <<1, 2>>
           /\ heap[v].element_type = "VARIABLE" /\ heap[v].constant_value
           /\ heap[a].ins["R"] = Connection(v, "out", a, "R")
           /\ heap[a].ins["S"] = None
           /\ ~heap[a].q

\* C31, as it is worded: a successful delete_element(id) leaves every
\* Connection between two other registered elements in its destination's
\* input slot and in its source's output list.
C31_DeleteElementFrame ==
    [][\A id_ \in Ids :
          ( /\ last' = Result("delete_element", "ok")
            /\ Registered(id_)
            /\ Mutation(delete_element(id_)) )
          => LET others == RegObjs \ {ObjOf(id_)}
             IN  \A a \in others :
                    /\ \A i \in DOMAIN heap[a].ins :
                           (heap[a].ins[i] # None /\ heap[a].ins[i].source \in others)
                               => heap'[a].ins[i] = heap[a].ins[i]
                    /\ \A o \in DOMAIN heap[a].outs :
                           \A k \in DOMAIN heap[a].outs[o] :
                               heap[a].outs[o][k].destination \in others
                                   => \E j \in DOMAIN heap'[a].outs[o] :
                                          heap'[a].outs[o][j] = heap[a].outs[o][k]]_vars

\* C32, as it is worded: a run called right after a run that returned, with
\* no other call in between, returns too, and returns the same mapping.
C32_RunRepeatable ==
    [][(returned.given /\ RunStep)
          => /\ pc' # "raised"
             /\ pc' = "returned" => final_out_values' = returned.result]_vars

\* C33, as it is worded: when run has ended with ForbiddenSrLatchStateError,
\* every element holds the outputs and the retained bit it held when that
\* run was called.
C33_AbortLeavesNoTick ==
    (pc = "raised" /\ last = Result("run", "ForbiddenSrLatchStateError"))
        => Snapshot(heap) = before

\* C34: when neither holds a memo, reading the value of the Encoder that a
\* Decoder of as many lines feeds gives, on output line i, what input line i
\* of the Decoder reads.
C34_DecoderEncoderIdentity ==
    [][(Wired /\ ~unit.value.cached /\ ~encoder.value.cached /\ OnCodec(encoder_value))
          => encoder'.value =
                 Outputs([l \in {Pin("output line ", i) : i \in 1..unit.size} |->
                     \E i \in 1..unit.size :
                         l = Pin("output line ", i) /\ High(Pin("input line ", i))])]_vars

\* C34's case: the word 10 went through output line 3 of the Decoder and
\* came out of the Encoder
C34_Witness ==
    /\ Wired /\ unit.size = 2
    /\ ~High("input line 1") /\ High("input line 2")
    /\ unit.value = Outputs([l \in UnitOuts("decoder", 2) |-> l = "output line 3"])
    /\ encoder.value = Outputs([l \in {"output line 1", "output line 2"} |->
                                   l = "output line 2"])
====
